---- MODULE Spec2Model ----
(***************************************************************************)
(* Model of the continuous-monitoring service of Jubilio/sentinel          *)
(* (src/services/monitoringService.ts): the protected-asset store, the     *)
(* alert store, the scan-history log and runMonitoringScan, the scan       *)
(* orchestrator that walks the cross-product of enabled assets and enabled *)
(* targets.                                                                *)
(*                                                                         *)
(* runMonitoringScan is an async function.  JavaScript runs it to the next *)
(* await without interleaving, so the only suspension point of a session   *)
(* is the await of simulateCrawl (pc = "crawl").  The synchronous stretches*)
(* are split into several actions; Quiescent keeps any other session from  *)
(* moving while one is inside a synchronous stretch.                       *)
(*                                                                         *)
(* Environment: the crawler is an opaque collaborator that returns a       *)
(* result of its declared type or throws; localStorage.setItem may throw   *)
(* (QuotaExceededError).  Both are drawn nondeterministically, the         *)
(* exceptional outcomes at most MaxFaults times and the reported matches   *)
(* at most MaxMatches times per behaviour.                                 *)
(***************************************************************************)
EXTENDS Integers, Sequences, FiniteSets, TLC

\* ---------------------------------------------------------------- bounds
MaxAssets == 2
MaxTargets == 4
MaxPairs == 6
MaxMatches == 2
MaxFaults == 1
\* direct calls of the alert store functions in one behaviour
MaxOps == 3
\* calls of compareHashes in one behaviour
MaxCompareCalls == 2
\* calls of a hash generator in one behaviour
MaxHashCalls == 2
\* significant bits of a number
MantissaBits == 8
\* calls of the vault functions in one behaviour
MaxVaultOps == 3
\* enabled pairs of a store that two successive calls scan
MaxSeqPairs == 1
\* enabled pairs of a store that two concurrent calls scan
MaxConcPairs == 2

\* ------------------------------------------------------ program constants
\* saveAlert keeps the first 100 alerts
AlertCapacity == 100
\* runMonitoringScan keeps the first 50 history entries
HistoryCapacity == 50
\* a hash has 16 hexadecimal digits, 64 bits
HashDigits == 16
HashBits == 64

\* calls of runMonitoringScan
Sessions == {1, 2}

\* similarity values the crawler reports, in tenths of a percent
\* (simulateCrawl: 75 + Math.random() * 20, in [75, 95))
SimValues == {755}

\* urls the crawler reports with a match; 0 stands for an absent url
UrlValues == {1}

VARIABLES
    assetStore,      \* localStorage 'sentinel_protected_assets' (parsed)
    assetsCorrupt,   \* the stored value does not parse as JSON
    targetsCfg,      \* MONITORING_TARGETS
    alertStore,      \* localStorage 'sentinel_alerts'
    history,         \* localStorage 'sentinel_scan_history'
    now,             \* the clock (Date.now / new Date())
    pc,              \* position of each call of runMonitoringScan
    session,         \* the MonitoringSession object of each call
    assets,          \* local `assets` of each call
    targets,         \* local `targets` of each call
    ai,              \* index of the outer loop (assets)
    ti,              \* index of the inner loop (targets)
    result,          \* outcome of the last simulateCrawl of each call
    progressLog,     \* what onProgress was called with, in order
    crawlLog,        \* the (asset, target) pairs simulateCrawl was called with
    emitted,         \* the alerts each call handed to saveAlert, in order
    readAtStart,     \* what getProtectedAssets returned at line 200
    unreadableAtStart, \* the store did not parse when the call started
    failedPairs,     \* indices k of the pairs whose crawl threw
    matches,         \* matches the crawler has reported so far
    faults,          \* exceptions the environment has raised so far
    vault,           \* localStorage 'sentinel_hash_vault' (parsed)
    lastCall         \* the last direct call of a store function and its outcome

vars == << assetStore, assetsCorrupt, targetsCfg, alertStore, history, now, pc,
           session, assets, targets, ai, ti, result, progressLog, crawlLog,
           emitted, readAtStart, unreadableAtStart, failedPairs, matches, faults,
           vault, lastCall >>

storeVars == << assetStore, assetsCorrupt, alertStore, history >>
\* what runMonitoringScan never touches
otherVars == << vault, lastCall >>
sessVars == << session, assets, targets, ai, ti, result, progressLog, crawlLog,
               emitted, readAtStart, unreadableAtStart, failedPairs >>

\* ------------------------------------------------------------ helpers
Take(seq, n) == SubSeq(seq, 1, IF Len(seq) < n THEN Len(seq) ELSE n)

RECURSIVE SeqsUpTo(_, _)
SeqsUpTo(S, n) ==
    IF n = 0 THEN { << >> }
    ELSE LET shorter == SeqsUpTo(S, n - 1)
         IN  shorter \cup { Append(q, x) : q \in shorter, x \in S }

\* mutant of MathRound: truncates instead of rounding
MathFloor(n, d) == n \div d

\* Math.round(n / d) for n >= 0, d > 0: floor(n/d + 1/2)
MathRound(n, d) == (2 * n + d) \div (2 * d)

\* Math.round of a value given in tenths
MathRoundTenths(t) == (t + 5) \div 10

\* ------------------------------------------------------------ stores
\* getProtectedAssets: JSON.parse in a try block, [] when it throws
GetProtectedAssets == IF assetsCorrupt THEN << >> ELSE assetStore

\* the list saveProtectedAsset writes back
SaveProtectedAssetTo(list, asset) ==
    IF \E i \in 1..Len(list) : list[i].id = asset.id
    THEN LET existingIndex == CHOOSE i \in 1..Len(list) :
                 /\ list[i].id = asset.id
                 /\ \A j \in 1..(i - 1) : list[j].id # asset.id
         IN  [list EXCEPT ![existingIndex] = asset]
    ELSE Append(list, asset)

\* mutant of SaveAlertTo: push instead of unshift
SaveAlertAtTail(list, alert) == Take(list \o << alert >>, AlertCapacity)

\* mutant of SaveAlertTo: the list is not cut
SaveAlertUnbounded(list, alert) == << alert >> \o list

\* the list saveAlert writes back
SaveAlertTo(list, alert) == Take(<< alert >> \o list, AlertCapacity)

\* mutant of SaveHistoryTo: the log is not cut
SaveHistoryUnbounded(list, sess) == << sess >> \o list

\* the list runMonitoringScan writes back to the history log
SaveHistoryTo(list, sess) == Take(<< sess >> \o list, HistoryCapacity)

\* mutant of FilterEnabledTargets: the enabled flag is not looked at
AllTargets(list) == list

\* mutant of FilterEnabledAssets: monitoringEnabled is not looked at
AllAssets(list) == list

FilterEnabledAssets(list) == SelectSeq(list, LAMBDA a : a.monitoringEnabled)
FilterEnabledTargets(list) == SelectSeq(list, LAMBDA t : t.enabled)

\* ------------------------------------------------------------ session
IdleSession ==
    [id |-> 0, status |-> "idle", targetsScanned |-> 0, totalTargets |-> 0,
     matchesFound |-> 0, currentTarget |-> 0, progress |-> 0]

NewSession(as, ts) ==
    [id |-> now, status |-> "scanning", targetsScanned |-> 0,
     totalTargets |-> Len(ts) * Len(as),
     matchesFound |-> 0, currentTarget |-> 0, progress |-> 0]

\* the callback would still see the previous pair's target
PairSessionStaleTarget(sess, target) ==
    [sess EXCEPT !.targetsScanned = sess.targetsScanned + 1,
                 !.progress = MathRound((sess.targetsScanned + 1) * 100,
                                        sess.totalTargets)]

\* lines 236-238
PairSession(sess, target) ==
    [sess EXCEPT !.currentTarget = target.id,
                 !.targetsScanned = sess.targetsScanned + 1,
                 !.progress = MathRound((sess.targetsScanned + 1) * 100,
                                        sess.totalTargets)]

\* lines 216-218
NoAssetsSession(sess) == [sess EXCEPT !.status = "completed", !.progress = 100]

\* mutant of CompletedSession: the status is reset instead of completed
CompletedSessionReset(sess) ==
    [sess EXCEPT !.status = "idle", !.progress = 100, !.currentTarget = 0]

\* mutant of CompletedSession: progress is left as the loop set it
CompletedSessionKeepsProgress(sess) ==
    [sess EXCEPT !.status = "completed", !.currentTarget = 0]

\* lines 279-282
CompletedSession(sess) ==
    [sess EXCEPT !.status = "completed", !.progress = 100, !.currentTarget = 0]

\* mutant of NoAssetsAlert: the severity of the summary of a scan with matches
NoAssetsAlertWarning ==
    [id |-> << now, 0 >>,
     type |-> "scan_complete", severity |-> "warning", targetSite |-> 0,
     matchUrl |-> 0, similarity |-> 0, assetId |-> 0, read |-> FALSE]

\* alert ids are << Date.now(), random suffix >>, suffix 0 when there is none
NoAssetsAlert ==
    [id |-> << now, 0 >>,
     type |-> "scan_complete", severity |-> "info", targetSite |-> 0,
     matchUrl |-> 0, similarity |-> 0, assetId |-> 0, read |-> FALSE]

MatchAlert(asset, target, res) ==
    [id |-> << asset.lastScanned, 1 >>,
     type |-> "match_found", severity |-> "critical", targetSite |-> target.id,
     matchUrl |-> res.url, similarity |-> MathRoundTenths(res.similarity),
     assetId |-> asset.id, read |-> FALSE]

\* mutant of SummaryAlert: the severity does not depend on matchesFound
SummaryAlertInfo(sess) ==
    [id |-> << now, 0 >>,
     type |-> "scan_complete", severity |-> "info",
     targetSite |-> 0, matchUrl |-> 0, similarity |-> 0, assetId |-> 0,
     read |-> FALSE]

SummaryAlert(sess) ==
    [id |-> << now, 0 >>,
     type |-> "scan_complete",
     severity |-> IF sess.matchesFound > 0 THEN "warning" ELSE "info",
     targetSite |-> 0, matchUrl |-> 0, similarity |-> 0, assetId |-> 0,
     read |-> FALSE]

\* the condition of line 244
IsMatch(res) == res.found /\ res.url # 0

NoResult == [kind |-> "none", found |-> FALSE, similarity |-> 0, url |-> 0]
Thrown == [kind |-> "throw", found |-> FALSE, similarity |-> 0, url |-> 0]

\* what simulateCrawl returns: no match (line 191) or a match with its
\* similarity and url (lines 184-188)
CrawlResults ==
    { [kind |-> "ok", found |-> FALSE, similarity |-> 0, url |-> 0] }
    \cup { [kind |-> "ok", found |-> TRUE, similarity |-> v, url |-> u] :
             v \in SimValues, u \in UrlValues }

\* no other call is inside a synchronous stretch
Quiescent(s) ==
    \A t \in Sessions \ {s} : pc[t] \in {"idle", "crawl", "done", "rejected"}

InFlight(s) == pc[s] \notin {"idle", "done", "rejected"}

\* ------------------------------------------------------------ initial states
AssetLists ==
    { [i \in 1..Len(q) |-> [id |-> i, matchCount |-> 0, lastScanned |-> 0,
                            monitoringEnabled |-> q[i]]] :
        q \in SeqsUpTo(BOOLEAN, MaxAssets) }

TargetLists ==
    { [i \in 1..Len(q) |-> [id |-> i, enabled |-> q[i]]] :
        q \in SeqsUpTo(BOOLEAN, MaxTargets) }

\* the stores a scan reads, with at most maxPairs enabled pairs
StoreInit(maxPairs) ==
    /\ assetsCorrupt \in BOOLEAN
    /\ assetStore \in (IF assetsCorrupt THEN { << >> } ELSE AssetLists)
    /\ targetsCfg \in TargetLists
    /\ Len(FilterEnabledAssets(assetStore)) * Len(FilterEnabledTargets(targetsCfg))
         <= maxPairs

\* op: the function, n: calls made so far, arg: its argument, ok: it returned
\* (FALSE: it threw), ret: what it returned
NoCall == [op |-> "none", n |-> 0, arg |-> 0, ok |-> TRUE, ret |-> << >>]

\* no call of runMonitoringScan has been made
SessionInit ==
    /\ now = 1
    /\ pc = [s \in Sessions |-> "idle"]
    /\ session = [s \in Sessions |-> IdleSession]
    /\ assets = [s \in Sessions |-> << >>]
    /\ targets = [s \in Sessions |-> << >>]
    /\ ai = [s \in Sessions |-> 1]
    /\ ti = [s \in Sessions |-> 1]
    /\ result = [s \in Sessions |-> NoResult]
    /\ progressLog = [s \in Sessions |-> << >>]
    /\ crawlLog = [s \in Sessions |-> << >>]
    /\ emitted = [s \in Sessions |-> << >>]
    /\ readAtStart = [s \in Sessions |-> << >>]
    /\ unreadableAtStart = [s \in Sessions |-> FALSE]
    /\ failedPairs = [s \in Sessions |-> {}]
    /\ matches = 0
    /\ faults = 0
    /\ lastCall = NoCall

Init ==
    /\ StoreInit(MaxPairs)
    /\ alertStore = << >>
    /\ history = << >>
    /\ vault = << >>
    /\ SessionInit

\* ------------------------------------------------------------ environment
\* localStorage.setItem returns (TRUE) or throws (FALSE)
WriteOutcomes == IF faults < MaxFaults THEN {TRUE, FALSE} ELSE {TRUE}

\* what the await of simulateCrawl can produce
CrawlAnswers ==
    { r \in CrawlResults : r.found => matches < MaxMatches }
    \cup (IF faults < MaxFaults THEN { Thrown } ELSE {})

\* ------------------------------------------------------------ runMonitoringScan
\* lines 245-249: the bookkeeping of a match
MatchedSession(sess) == [sess EXCEPT !.matchesFound = sess.matchesFound + 1]
MatchedAsset(asset, t) ==
    [asset EXCEPT !.matchCount = asset.matchCount + 1, !.lastScanned = t]

\* mutant of ScannedAsset: the asset is saved as it is
ScannedAssetUnstamped(asset, t) == asset

\* line 275
ScannedAsset(asset, t) == [asset EXCEPT !.lastScanned = t]

\* mutant of AfterCrawlError: the error leaves the function
AbortAfterCrawlError == "rejected"

\* lines 269-271: the catch block logs and falls through to the next target
AfterCrawlError == "loop"

\* what a call of onProgress sees: the session as it is then, and how many
\* times simulateCrawl has been called before it
LogEntry(at, sess, crawls) ==
    [at |-> at, progress |-> sess.progress, status |-> sess.status,
     currentTarget |-> sess.currentTarget,
     targetsScanned |-> sess.targetsScanned, crawls |-> crawls]

\* lines 197-215: read the stores, build the session, first onProgress
StartScanBody(s) ==
    /\ pc[s] = "idle"
    /\ Quiescent(s)
    /\ UNCHANGED otherVars
    /\ LET as == FilterEnabledAssets(GetProtectedAssets)
           ts == FilterEnabledTargets(targetsCfg)
           sess == NewSession(as, ts)
       IN  /\ assets' = [assets EXCEPT ![s] = as]
           /\ targets' = [targets EXCEPT ![s] = ts]
           /\ session' = [session EXCEPT ![s] = sess]
           /\ progressLog' = [progressLog EXCEPT ![s] = << LogEntry("start", sess, Len(crawlLog[s])) >>]
           /\ pc' = [pc EXCEPT ![s] = IF Len(as) = 0 THEN "noassets" ELSE "loop"]
    /\ readAtStart' = [readAtStart EXCEPT ![s] = GetProtectedAssets]
    /\ unreadableAtStart' = [unreadableAtStart EXCEPT ![s] = assetsCorrupt]
    /\ ai' = [ai EXCEPT ![s] = 1]
    /\ ti' = [ti EXCEPT ![s] = 1]
    /\ UNCHANGED << storeVars, targetsCfg, now, result, crawlLog, emitted,
                    failedPairs, matches, faults >>

\* The scan button is disabled while a scan runs (MatchReview.tsx line 512):
\* calls follow one another.
StartScan(s) ==
    /\ \A t \in Sessions : ~InFlight(t)
    /\ \A t \in Sessions : t < s => pc[t] # "idle"
    /\ StartScanBody(s)

\* lines 215-232: no enabled asset
NoAssets(s) ==
    /\ pc[s] = "noassets"
    /\ Quiescent(s)
    /\ UNCHANGED otherVars
    /\ LET sess == NoAssetsSession(session[s])
       IN  /\ session' = [session EXCEPT ![s] = sess]
           /\ emitted' = [emitted EXCEPT ![s] = Append(@, NoAssetsAlert)]
           /\ \E written \in WriteOutcomes :
                IF written
                THEN /\ alertStore' = SaveAlertTo(alertStore, NoAssetsAlert)
                     /\ progressLog' = [progressLog EXCEPT
                                          ![s] = Append(@, LogEntry("end", sess, Len(crawlLog[s])))]
                     /\ pc' = [pc EXCEPT ![s] = "done"]
                     /\ UNCHANGED faults
                ELSE /\ pc' = [pc EXCEPT ![s] = "rejected"]
                     /\ faults' = faults + 1
                     /\ UNCHANGED << alertStore, progressLog >>
    /\ UNCHANGED << assetStore, assetsCorrupt, history, targetsCfg, now, assets,
                    targets, ai, ti, result, crawlLog, readAtStart,
                    unreadableAtStart, failedPairs, matches >>

\* lines 235-242: head of the inner loop up to the call of simulateCrawl
BeginPair(s) ==
    /\ pc[s] = "loop"
    /\ Quiescent(s)
    /\ UNCHANGED otherVars
    /\ ai[s] <= Len(assets[s])
    /\ ti[s] <= Len(targets[s])
    /\ LET sess == PairSession(session[s], targets[s][ti[s]])
       IN  /\ session' = [session EXCEPT ![s] = sess]
           /\ progressLog' = [progressLog EXCEPT
                                ![s] = Append(@, LogEntry("pair", sess, Len(crawlLog[s])))]
    /\ crawlLog' = [crawlLog EXCEPT
                      ![s] = Append(@, << assets[s][ai[s]].id, targets[s][ti[s]].id >>)]
    /\ pc' = [pc EXCEPT ![s] = "crawl"]
    /\ UNCHANGED << storeVars, targetsCfg, now, assets, targets, ai, ti, result,
                    emitted, readAtStart, unreadableAtStart, failedPairs,
                    matches, faults >>

\* lines 242-271: simulateCrawl settles; the try block and its catch
CrawlReturns(s) ==
    /\ pc[s] = "crawl"
    /\ Quiescent(s)
    /\ UNCHANGED otherVars
    /\ now' = now + 1
    /\ \E res \in CrawlAnswers :
         /\ result' = [result EXCEPT ![s] = res]
         /\ matches' = IF res.found THEN matches + 1 ELSE matches
         /\ IF res.kind = "throw"
            THEN /\ faults' = faults + 1
                 /\ failedPairs' = [failedPairs EXCEPT
                                      ![s] = @ \cup { session[s].targetsScanned }]
                 /\ pc' = [pc EXCEPT ![s] = AfterCrawlError]
                 /\ ti' = [ti EXCEPT ![s] = @ + 1]
                 /\ UNCHANGED << session, assets, assetStore, assetsCorrupt,
                                 alertStore, emitted, progressLog >>
            ELSE
              /\ UNCHANGED failedPairs
              /\ pc' = [pc EXCEPT ![s] = "loop"]
              /\ ti' = [ti EXCEPT ![s] = @ + 1]
              /\ IF ~IsMatch(res)
                 THEN UNCHANGED << session, assets, assetStore, assetsCorrupt,
                                   alertStore, emitted, progressLog, faults >>
                 ELSE
                   LET sess == MatchedSession(session[s])
                       asset == MatchedAsset(assets[s][ai[s]], now')
                       alert == MatchAlert(asset, targets[s][ti[s]], res)
                   IN  /\ session' = [session EXCEPT ![s] = sess]
                       /\ assets' = [assets EXCEPT ![s][ai[s]] = asset]
                       /\ \E savedAsset \in WriteOutcomes :
                            IF ~savedAsset
                            THEN \* saveProtectedAsset throws: caught at line 269
                                 /\ faults' = faults + 1
                                 /\ UNCHANGED << assetStore, assetsCorrupt,
                                                 alertStore, emitted, progressLog >>
                            ELSE
                              /\ assetStore' = SaveProtectedAssetTo(GetProtectedAssets, asset)
                              /\ assetsCorrupt' = FALSE
                              /\ emitted' = [emitted EXCEPT ![s] = Append(@, alert)]
                              /\ \E savedAlert \in WriteOutcomes :
                                   IF ~savedAlert
                                   THEN \* saveAlert throws: caught at line 269
                                        /\ faults' = faults + 1
                                        /\ UNCHANGED << alertStore, progressLog >>
                                   ELSE /\ alertStore' = SaveAlertTo(alertStore, alert)
                                        /\ progressLog' = [progressLog EXCEPT
                                             ![s] = Append(@, LogEntry("match", sess, Len(crawlLog[s])))]
                                        /\ UNCHANGED faults
    /\ UNCHANGED << history, targetsCfg, targets, ai, crawlLog, readAtStart,
                    unreadableAtStart >>

\* lines 274-277: the inner loop is over for this asset
EndAsset(s) ==
    /\ pc[s] = "loop"
    /\ Quiescent(s)
    /\ UNCHANGED otherVars
    /\ ai[s] <= Len(assets[s])
    /\ ti[s] > Len(targets[s])
    /\ LET asset == ScannedAsset(assets[s][ai[s]], now)
       IN  /\ assets' = [assets EXCEPT ![s][ai[s]] = asset]
           /\ \E written \in WriteOutcomes :
                IF written
                THEN /\ assetStore' = SaveProtectedAssetTo(GetProtectedAssets, asset)
                     /\ assetsCorrupt' = FALSE
                     /\ ai' = [ai EXCEPT ![s] = @ + 1]
                     /\ ti' = [ti EXCEPT ![s] = 1]
                     /\ UNCHANGED << pc, faults >>
                ELSE \* saveProtectedAsset throws outside the try block
                     /\ pc' = [pc EXCEPT ![s] = "rejected"]
                     /\ faults' = faults + 1
                     /\ UNCHANGED << assetStore, assetsCorrupt, ai, ti >>
    /\ UNCHANGED << alertStore, history, targetsCfg, now, session, targets,
                    result, progressLog, crawlLog, emitted, readAtStart,
                    unreadableAtStart, failedPairs, matches >>

\* lines 279-297: all pairs are processed
Complete(s) ==
    /\ pc[s] = "loop"
    /\ Quiescent(s)
    /\ UNCHANGED otherVars
    /\ ai[s] > Len(assets[s])
    /\ LET sess == CompletedSession(session[s])
           alert == SummaryAlert(sess)
       IN  /\ session' = [session EXCEPT ![s] = sess]
           /\ emitted' = [emitted EXCEPT ![s] = Append(@, alert)]
           /\ \E written \in WriteOutcomes :
                IF written
                THEN /\ alertStore' = SaveAlertTo(alertStore, alert)
                     /\ progressLog' = [progressLog EXCEPT
                                          ![s] = Append(@, LogEntry("end", sess, Len(crawlLog[s])))]
                     /\ pc' = [pc EXCEPT ![s] = "history"]
                     /\ UNCHANGED faults
                ELSE /\ pc' = [pc EXCEPT ![s] = "rejected"]
                     /\ faults' = faults + 1
                     /\ UNCHANGED << alertStore, progressLog >>
    /\ UNCHANGED << assetStore, assetsCorrupt, history, targetsCfg, now, assets,
                    targets, ai, ti, result, crawlLog, readAtStart,
                    unreadableAtStart, failedPairs, matches >>

\* lines 299-304: the history log, then return
SaveHistory(s) ==
    /\ pc[s] = "history"
    /\ Quiescent(s)
    /\ UNCHANGED otherVars
    /\ \E written \in WriteOutcomes :
         IF written
         THEN /\ history' = SaveHistoryTo(history, session[s])
              /\ pc' = [pc EXCEPT ![s] = "done"]
              /\ UNCHANGED faults
         ELSE /\ pc' = [pc EXCEPT ![s] = "rejected"]
              /\ faults' = faults + 1
              /\ UNCHANGED history
    /\ UNCHANGED << assetStore, assetsCorrupt, alertStore, targetsCfg, now,
                    sessVars, matches >>

\* the steps of one call of runMonitoringScan
Scan(s) ==
    \/ NoAssets(s)
    \/ BeginPair(s)
    \/ CrawlReturns(s)
    \/ EndAsset(s)
    \/ Complete(s)
    \/ SaveHistory(s)

\* Spec: one call of runMonitoringScan, from every initial store
Next ==
    \/ StartScan(1)
    \/ Scan(1)

Spec == Init /\ [][Next]_vars

\* ------------------------------------------------------------ successive calls
\* a session an earlier scan left in the history log, i scans ago
PriorSession(i) ==
    [id |-> 0 - i, status |-> "completed", targetsScanned |-> 1,
     totalTargets |-> 1, matchesFound |-> 0, currentTarget |-> 0,
     progress |-> 100]

PriorHistory(n) == [i \in 1..n |-> PriorSession(i)]

\* the log is empty, one short of its capacity, or full
PriorHistoryLengths == { 0, HistoryCapacity - 1, HistoryCapacity }

InitSeq ==
    /\ StoreInit(MaxSeqPairs)
    /\ alertStore = << >>
    /\ history \in { PriorHistory(n) : n \in PriorHistoryLengths }
    /\ vault = << >>
    /\ SessionInit

\* calls of runMonitoringScan one after the other
NextSeq ==
    \E s \in Sessions :
        \/ StartScan(s)
        \/ Scan(s)

SpecSeq == InitSeq /\ [][NextSeq]_vars

\* ------------------------------------------------------------ alert store
\* mutant of MarkAlertReadIn: the id is not looked at
MarkEveryAlertRead(list, alertId) ==
    [i \in 1..Len(list) |-> [list[i] EXCEPT !.read = TRUE]]

\* lines 151-158: the list markAlertRead writes back
MarkAlertReadIn(list, alertId) ==
    IF \E i \in 1..Len(list) : list[i].id = alertId
    THEN LET k == CHOOSE i \in 1..Len(list) :
                      /\ list[i].id = alertId
                      /\ \A j \in 1..(i - 1) : list[j].id # alertId
         IN  [list EXCEPT ![k].read = TRUE]
    ELSE list

\* an alert an earlier call left in the store, i saves ago
PriorAlert(i) ==
    [id |-> << 0 - i, 0 >>,
     type |-> "scan_complete", severity |-> "info", targetSite |-> 0,
     matchUrl |-> 0, similarity |-> 0, assetId |-> 0, read |-> FALSE]

PriorAlerts(n) == [i \in 1..n |-> PriorAlert(i)]

\* the store is empty, one short of its capacity, or full
PriorAlertLengths == { 0, AlertCapacity - 1, AlertCapacity }

\* alerts a caller hands to saveAlert; two of them may carry the same id
CallerAlerts ==
    { [id |-> << t, 0 >>,
       type |-> "potential_match", severity |-> sev, targetSite |-> 1,
       matchUrl |-> 1, similarity |-> 80, assetId |-> 1, read |-> FALSE] :
        t \in {1, 2}, sev \in {"warning"} }

\* ids a caller hands to markAlertRead: of a new alert, of the newest and
\* the oldest prior alert, and of no alert
CallerAlertIds ==
    { << 1, 0 >>, << 2, 0 >>, << 0 - 1, 0 >>, << 0 - AlertCapacity, 0 >>,
      << 0, 0 >> }

Called(op, arg, ok) ==
    [op |-> op, n |-> lastCall.n + 1, arg |-> arg, ok |-> ok, ret |-> << >>]

\* lines 141-146
SaveAlert(alert) ==
    /\ lastCall.n < MaxOps
    /\ \E written \in WriteOutcomes :
         /\ alertStore' = (IF written THEN SaveAlertTo(alertStore, alert)
                                      ELSE alertStore)
         /\ faults' = (IF written THEN faults ELSE faults + 1)
         /\ lastCall' = Called("saveAlert", alert, written)
    /\ UNCHANGED << assetStore, assetsCorrupt, history, targetsCfg, now,
                    pc, sessVars, matches, vault >>

\* lines 151-158: nothing is written when no alert has the id
MarkAlertRead(alertId) ==
    /\ lastCall.n < MaxOps
    /\ \E written \in (IF MarkAlertReadIn(alertStore, alertId) = alertStore
                         /\ \A i \in 1..Len(alertStore) : alertStore[i].id # alertId
                        THEN {TRUE} ELSE WriteOutcomes) :
         /\ alertStore' = (IF written THEN MarkAlertReadIn(alertStore, alertId)
                                      ELSE alertStore)
         /\ faults' = (IF written THEN faults ELSE faults + 1)
         /\ lastCall' = Called("markAlertRead", alertId, written)
    /\ UNCHANGED << assetStore, assetsCorrupt, history, targetsCfg, now,
                    pc, sessVars, matches, vault >>

\* lines 321-323
ClearAllAlerts ==
    /\ lastCall.n < MaxOps
    /\ \E written \in WriteOutcomes :
         /\ alertStore' = (IF written THEN << >> ELSE alertStore)
         /\ faults' = (IF written THEN faults ELSE faults + 1)
         /\ lastCall' = Called("clearAllAlerts", 0, written)
    /\ UNCHANGED << assetStore, assetsCorrupt, history, targetsCfg, now,
                    pc, sessVars, matches, vault >>

InitAlerts ==
    /\ assetsCorrupt = FALSE
    /\ assetStore = << >>
    /\ targetsCfg = << >>
    /\ alertStore \in { PriorAlerts(n) : n \in PriorAlertLengths }
    /\ history = << >>
    /\ vault = << >>
    /\ SessionInit

NextAlerts ==
    \/ \E alert \in CallerAlerts : SaveAlert(alert)
    \/ \E alertId \in CallerAlertIds : MarkAlertRead(alertId)
    \/ ClearAllAlerts

SpecAlerts == InitAlerts /\ [][NextAlerts]_vars

\* ------------------------------------------------------------ hash vault
\* A hash is the sequence of its hexadecimal digits, most significant first.
HashZero == [i \in 1..HashDigits |-> 0]
HashOnes == [i \in 1..HashDigits |-> 15]
HashTop == [i \in 1..HashDigits |-> IF i = 1 THEN 8 ELSE 0]

\* the hash that ends in the digits of tail, zero-padded as at lines 87-165
HashLow(tail) ==
    [i \in 1..HashDigits |->
        IF i <= HashDigits - Len(tail) THEN 0
        ELSE tail[i - (HashDigits - Len(tail))]]

\* the binary digits of the hexadecimal digits, four for each
HexToBits(hash) ==
    [i \in 1..(4 * Len(hash)) |->
        LET d == hash[((i - 1) \div 4) + 1]
            k == (i - 1) % 4
        IN  IF k = 0 THEN d \div 8
            ELSE IF k = 1 THEN (d \div 4) % 2
            ELSE IF k = 2 THEN (d \div 2) % 2
            ELSE d % 2]

\* BigInt('0x' + hash).toString(2): no leading zero, "0" for zero
RECURSIVE FirstOne(_, _)
FirstOne(bits, i) ==
    IF i > Len(bits) THEN 0
    ELSE IF bits[i] = 1 THEN i
    ELSE FirstOne(bits, i + 1)

BigIntToString2(hash) ==
    LET bits == HexToBits(hash)
        first == FirstOne(bits, 1)
    IN  IF first = 0 THEN << 0 >> ELSE SubSeq(bits, first, Len(bits))

\* mutant of PadStart: the string is left as toString(2) gave it
PadStartNone(str, n) == str

\* String.prototype.padStart(n, '0')
PadStart(str, n) ==
    IF Len(str) >= n THEN str ELSE [i \in 1..(n - Len(str)) |-> 0] \o str

\* lines 179-188; an index past the end of bin2 reads undefined and differs
CalculateHammingDistance(hash1, hash2) ==
    LET bin1 == PadStart(BigIntToString2(hash1), HashBits)
        bin2 == PadStart(BigIntToString2(hash2), HashBits)
    IN  Cardinality({ i \in 1..Len(bin1) : i > Len(bin2) \/ bin1[i] # bin2[i] })

\* mutant of WithinThreshold: the distance has to be below the threshold
BelowThreshold(distance, threshold) == distance < threshold

\* line 202
WithinThreshold(distance, threshold) == distance <= threshold

\* mutant of CompareHashes: the similarity is cut, not rounded
CompareHashesTruncating(hash1, hash2, threshold) ==
    LET hammingDistance == CalculateHammingDistance(hash1, hash2)
    IN  [hammingDistance |-> hammingDistance,
         similarity |-> ((HashBits - hammingDistance) * 100) \div HashBits,
         isMatch |-> WithinThreshold(hammingDistance, threshold)]

\* mutant of CompareHashes: the threshold of the caller is not used
CompareHashesDefaultThreshold(hash1, hash2, threshold) ==
    LET hammingDistance == CalculateHammingDistance(hash1, hash2)
    IN  [hammingDistance |-> hammingDistance,
         similarity |-> MathRound((HashBits - hammingDistance) * 100, HashBits),
         isMatch |-> WithinThreshold(hammingDistance, 10)]

\* lines 193-204
CompareHashes(hash1, hash2, threshold) ==
    LET hammingDistance == CalculateHammingDistance(hash1, hash2)
    IN  [hammingDistance |-> hammingDistance,
         similarity |-> MathRound((HashBits - hammingDistance) * 100, HashBits),
         isMatch |-> WithinThreshold(hammingDistance, threshold)]

\* Array.prototype.sort((a, b) => b.similarity - a.similarity), which is
\* stable: m goes behind the matches that are no less similar
InsertBySimilarity(sorted, m) ==
    LET k == Cardinality({ i \in 1..Len(sorted) :
                             sorted[i].similarity >= m.similarity })
    IN  SubSeq(sorted, 1, k) \o << m >> \o SubSeq(sorted, k + 1, Len(sorted))

RECURSIVE SortBySimilarity(_)
SortBySimilarity(list) ==
    IF list = << >> THEN << >>
    ELSE InsertBySimilarity(SortBySimilarity(SubSeq(list, 1, Len(list) - 1)),
                            list[Len(list)])

\* lines 256-268: the matches in vault order
RECURSIVE VaultMatches(_, _, _, _)
VaultMatches(entries, targetHash, algorithm, threshold) ==
    IF entries = << >> THEN << >>
    ELSE LET entry == entries[1]
             storedHash == entry.hashes[algorithm]
             comparison == CompareHashes(targetHash, storedHash, threshold)
             rest == VaultMatches(Tail(entries), targetHash, algorithm, threshold)
         IN  IF Len(storedHash) > 0 /\ comparison.isMatch
             THEN << [assetId |-> entry.id,
                      similarity |-> comparison.similarity,
                      storedAt |-> entry.storedAt] >> \o rest
             ELSE rest

\* lines 254-271
SearchVaultForMatchesIn(entries, targetHash, algorithm, threshold) ==
    SortBySimilarity(VaultMatches(entries, targetHash, algorithm, threshold))

Algorithms == { "aHash", "dHash", "pHash" }

\* the hashes a caller stores; << >> is a record without that hash
CallerHashes ==
    { [aHash |-> HashZero, dHash |-> HashLow(<< 3, 15, 15 >>),
       pHash |-> HashLow(<< 7, 15, 15 >>)],
      [aHash |-> HashOnes, dHash |-> HashLow(<< 1 >>), pHash |-> HashTop],
      [aHash |-> HashLow(<< 1, 15 >>), dHash |-> << >>, pHash |-> HashZero] }

CallerAssetIds == { 1, 2 }

\* the hashes a caller searches for
CallerTargets == { HashZero, HashLow(<< 1 >>) }

\* thresholds of the callers (5 and 10) and the ends of the range
CallerThresholds == { 0, 5, 10, 64 }

\* lines 226-243: the record is pushed; a throw of setItem is caught and logged
StoreHashInVault(assetId, hashes) ==
    /\ lastCall.n < MaxVaultOps
    /\ \E written \in WriteOutcomes :
         /\ vault' = (IF written
                      THEN Append(vault, [id |-> assetId, hashes |-> hashes,
                                          storedAt |-> now])
                      ELSE vault)
         /\ faults' = (IF written THEN faults ELSE faults + 1)
    /\ now' = now + 1
    /\ lastCall' = Called("storeHashInVault", assetId, TRUE)
    /\ UNCHANGED << storeVars, targetsCfg, pc, sessVars, matches >>

\* lines 248-276
SearchVaultForMatches(targetHash, algorithm, threshold) ==
    /\ lastCall.n < MaxVaultOps
    /\ lastCall' = [Called("searchVaultForMatches",
                           [targetHash |-> targetHash, algorithm |-> algorithm,
                            threshold |-> threshold], TRUE)
                      EXCEPT !.ret = SearchVaultForMatchesIn(vault, targetHash,
                                                             algorithm, threshold)]
    /\ UNCHANGED << storeVars, targetsCfg, now, pc, sessVars, matches, faults,
                    vault >>

InitVault ==
    /\ assetsCorrupt = FALSE
    /\ assetStore = << >>
    /\ targetsCfg = << >>
    /\ alertStore = << >>
    /\ history = << >>
    /\ vault = << >>
    /\ SessionInit

NextVault ==
    \/ \E assetId \in CallerAssetIds, hashes \in CallerHashes :
          StoreHashInVault(assetId, hashes)
    \/ \E targetHash \in CallerTargets, algorithm \in Algorithms,
          threshold \in CallerThresholds :
          SearchVaultForMatches(targetHash, algorithm, threshold)

SpecVault == InitVault /\ [][NextVault]_vars

\* ------------------------------------------------------------ hash comparison
\* the hash whose k low bits are 1
LowOnes(k) ==
    [i \in 1..HashDigits |->
        LET bits == k - 4 * (HashDigits - i)
        IN  IF bits <= 0 THEN 0
            ELSE IF bits = 1 THEN 1
            ELSE IF bits = 2 THEN 3
            ELSE IF bits = 3 THEN 7
            ELSE 15]

\* 'A5A5A5A5A5A5A5A5' and '5A5A5A5A5A5A5A5A'
HashA5 == [i \in 1..HashDigits |-> IF i % 2 = 1 THEN 10 ELSE 5]
Hash5A == [i \in 1..HashDigits |-> IF i % 2 = 1 THEN 5 ELSE 10]

\* strings that are not 16 digits long: 'F' and seventeen 'F'
HashShort == << 15 >>
HashLong == [i \in 1..(HashDigits + 1) |-> 15]

\* the pairs a caller compares: every distance from 0 to 64, both orders of
\* a pair, equal hashes, and hashes of a wrong length
CallerPairs ==
    { << HashZero, LowOnes(k) >> : k \in 0..HashBits }
    \cup { << HashA5, Hash5A >>, << Hash5A, HashA5 >>, << HashA5, HashA5 >>,
           << HashTop, HashLow(<< 1 >>) >>, << HashLow(<< 1 >>), HashTop >>,
           << HashOnes, LowOnes(3) >>,
           << HashShort, HashLow(<< 15 >>) >>, << HashLong, HashOnes >> }

\* thresholds: the strictest, the default of line 193, and around the maximum
CompareThresholds == { 0, 10, 63, 64 }

\* lines 193-204
CompareHashesCall(hash1, hash2, threshold) ==
    /\ lastCall.n < MaxCompareCalls
    /\ lastCall' = [Called("compareHashes",
                           [hash1 |-> hash1, hash2 |-> hash2,
                            threshold |-> threshold], TRUE)
                      EXCEPT !.ret = << CompareHashes(hash1, hash2, threshold) >>]
    /\ UNCHANGED << storeVars, targetsCfg, now, pc, sessVars, matches, faults,
                    vault >>

InitCompare ==
    /\ assetsCorrupt = FALSE
    /\ assetStore = << >>
    /\ targetsCfg = << >>
    /\ alertStore = << >>
    /\ history = << >>
    /\ vault = << >>
    /\ SessionInit

NextCompare ==
    \E pair \in CallerPairs, threshold \in CompareThresholds :
        CompareHashesCall(pair[1], pair[2], threshold)

SpecCompare == InitCompare /\ [][NextCompare]_vars

\* ------------------------------------------------------------ average hash
\* A JavaScript number is a binary floating-point value: the result of an
\* addition is rounded to the nearest value with that many significant bits,
\* ties to the even one. The model keeps MantissaBits significant bits where
\* the engine keeps 53, and counts in units small enough for every gray
\* sample and every mean to be a whole number.
RECURSIVE Quantum(_, _)
Quantum(x, q) == IF x \div q < 2 ^ MantissaBits THEN q ELSE Quantum(x, 2 * q)

\* x rounded to a multiple of q, a tie to the even multiple
RoundToMultiple(x, q) ==
    LET lower == (x \div q) * q
        rest == x - lower
    IN  IF 2 * rest < q THEN lower
        ELSE IF 2 * rest > q THEN lower + q
        ELSE IF (x \div q) % 2 = 0 THEN lower
        ELSE lower + q

FlRound(x) ==
    CHOOSE r \in { RoundToMultiple(v, Quantum(v, 1)) : v \in { x } } : TRUE

\* line 78: gray.reduce((a, b) => a + b, 0), from the left; acc is the value
\* of the accumulator before sample i
RECURSIVE ReduceFrom(_, _, _)
ReduceFrom(gray, i, acc) ==
    IF i > Len(gray) THEN acc
    ELSE CHOOSE r \in { ReduceFrom(gray, i + 1, v) :
                          v \in { FlRound(acc + gray[i]) } } : TRUE

ReduceSum(gray) == ReduceFrom(gray, 1, 0)

\* line 78: a division by 64 changes the exponent only; the samples are
\* multiples of 64 units, so the quotient is a whole number of units
Average(gray) == ReduceSum(gray) \div Len(gray)

\* lines 81-84
ThresholdBits(gray, avg) ==
    [i \in 1..Len(gray) |-> IF gray[i] > avg THEN 1 ELSE 0]

\* BigInt('0b' + hash).toString(16): one digit for four bits, no leading zero
RECURSIVE FirstNonZero(_, _)
FirstNonZero(digits, i) ==
    IF i > Len(digits) THEN 0
    ELSE IF digits[i] # 0 THEN i
    ELSE FirstNonZero(digits, i + 1)

BigIntToString16(bits) ==
    LET digits == [j \in 1..(Len(bits) \div 4) |->
                      8 * bits[4 * j - 3] + 4 * bits[4 * j - 2]
                        + 2 * bits[4 * j - 1] + bits[4 * j]]
        first == FirstNonZero(digits, 1)
    IN  IF first = 0 THEN << 0 >> ELSE SubSeq(digits, first, Len(digits))

\* lines 75-87, from the gray samples on
AverageHashOf(gray) ==
    PadStart(BigIntToString16(ThresholdBits(gray, Average(gray))), HashDigits)

\* the samples of an 8x8 image of one colour
UniformBuffer(v) == [i \in 1..HashBits |-> v]

\* the samples of a dark image with one bright pixel
SpotBuffer(k) == [i \in 1..HashBits |-> IF i = k THEN 3 * 64 ELSE 64]

\* gray values of uniform images, in units: small ones, which 64 additions
\* keep exact, and ones that use every significant bit
UniformGrays ==
    { 64 * m : m \in 1..4 }
    \cup { 64 * (2 ^ (MantissaBits - 1) + k) : k \in 0..3 }

GrayBuffers ==
    { UniformBuffer(v) : v \in UniformGrays }
    \cup { SpotBuffer(k) : k \in 1..HashBits }

\* lines 72-95
GenerateAverageHash(gray) ==
    /\ lastCall.n < MaxHashCalls
    /\ lastCall' = [Called("generateAverageHash", gray, TRUE)
                      EXCEPT !.ret = << AverageHashOf(gray) >>]
    /\ UNCHANGED << storeVars, targetsCfg, now, pc, sessVars, matches, faults,
                    vault >>

InitHash ==
    /\ assetsCorrupt = FALSE
    /\ assetStore = << >>
    /\ targetsCfg = << >>
    /\ alertStore = << >>
    /\ history = << >>
    /\ vault = << >>
    /\ SessionInit

NextAverageHash == \E gray \in GrayBuffers : GenerateAverageHash(gray)

SpecAverageHash == InitHash /\ [][NextAverageHash]_vars

\* ------------------------------------------------------------ perceptual hash
\* element k (from 1) of [...list].sort((a, b) => a - b): fewer than k
\* elements are below it and at least k are not above it
SortedAt(list, k) ==
    LET values == { list[j] : j \in 1..Len(list) }
    IN  CHOOSE x \in values :
            /\ Cardinality({ j \in 1..Len(list) : list[j] < x }) < k
            /\ Cardinality({ j \in 1..Len(list) : list[j] <= x }) >= k

\* mutant of Median: the element one place lower
MedianBelow(list) == SortedAt(list, Len(list) \div 2)

\* line 154: sorted[Math.floor(length / 2)], counted from 0
Median(list) == SortedAt(list, (Len(list) \div 2) + 1)

\* String.prototype.padEnd(n, '0')
PadEnd(str, n) ==
    IF Len(str) >= n THEN str ELSE str \o [i \in 1..(n - Len(str)) |-> 0]

\* lines 152-165, from the 64 coefficients on
PerceptualHashOf(dct) ==
    LET dctWithoutDC == Tail(dct)
        median == Median(dctWithoutDC)
        taken == SubSeq(dctWithoutDC, 1,
                        IF Len(dctWithoutDC) < HashBits THEN Len(dctWithoutDC)
                        ELSE HashBits)
        hash == [i \in 1..Len(taken) |-> IF taken[i] > median THEN 1 ELSE 0]
    IN  PadStart(BigIntToString16(PadEnd(hash, HashBits)), HashDigits)

\* coefficients of which the first k after the DC term are high
StepCoefficients(k) ==
    [i \in 1..HashBits |-> IF i = 1 THEN 1000 ELSE IF i - 1 <= k THEN 10 ELSE 0 - 10]

\* coefficients that rise, and that fall, along the 64 places
RisingCoefficients == [i \in 1..HashBits |-> i]
FallingCoefficients == [i \in 1..HashBits |-> 0 - i]

DctVectors ==
    { StepCoefficients(k) : k \in 0..(HashBits - 1) }
    \cup { RisingCoefficients, FallingCoefficients }

\* lines 125-173, from the coefficients on
GeneratePerceptualHash(dct) ==
    /\ lastCall.n < MaxHashCalls
    /\ lastCall' = [Called("generatePerceptualHash", dct, TRUE)
                      EXCEPT !.ret = << PerceptualHashOf(dct) >>]
    /\ UNCHANGED << storeVars, targetsCfg, now, pc, sessVars, matches, faults,
                    vault >>

NextPerceptualHash == \E dct \in DctVectors : GeneratePerceptualHash(dct)

SpecPerceptualHash == InitHash /\ [][NextPerceptualHash]_vars

\* ------------------------------------------------------------ registration
\* An image source is a file that the browser can decode or not; image names
\* its content.
Sources ==
    { [decodable |-> d, image |-> i] : d \in BOOLEAN, i \in {1, 2} }

\* hashingService.ts lines 25-39: the promise resolves with the image or
\* rejects with Error('Failed to load image')
LoadImage(source) ==
    IF source.decodable THEN [ok |-> TRUE, image |-> source.image]
    ELSE [ok |-> FALSE, image |-> 0]

\* the three hashes of a decoded image
ImageHashes(image) ==
    IF image = 1
    THEN [aHash |-> HashZero, dHash |-> HashLow(<< 1 >>),
          pHash |-> HashLow(<< 3, 15, 15 >>)]
    ELSE [aHash |-> HashOnes, dHash |-> HashTop, pHash |-> HashLow(<< 1, 15 >>)]

\* mutant of GenerateAllHashes: an image that does not load is hashed as if
\* it were blank
GenerateAllHashesOfPlaceholder(source) ==
    [ok |-> TRUE,
     hashes |-> IF LoadImage(source).ok THEN ImageHashes(LoadImage(source).image)
                ELSE [aHash |-> HashZero, dHash |-> HashZero, pHash |-> HashZero]]

\* hashingService.ts lines 209-221: Promise.all of the three generators, each
\* of which awaits loadImage first (lines 73, 102, 126)
GenerateAllHashes(source) ==
    LET img == LoadImage(source)
    IN  IF img.ok THEN [ok |-> TRUE, hashes |-> ImageHashes(img.image)]
        ELSE [ok |-> FALSE, hashes |-> << >>]

\* lines 109-121
NewProtectedAsset ==
    [id |-> now, matchCount |-> 0, lastScanned |-> 0, monitoringEnabled |-> TRUE]

\* no call of runMonitoringScan is inside a synchronous stretch
NoScanRunning == \A t \in Sessions : pc[t] \in {"idle", "crawl", "done", "rejected"}

\* lines 99-125: the rejection of generateAllHashes leaves the function at
\* line 100; ret holds the asset returned and its hashes
AddProtectedAsset(source) ==
    /\ lastCall.n < MaxOps
    /\ NoScanRunning
    /\ LET generated == GenerateAllHashes(source)
           asset == NewProtectedAsset
       IN  IF ~generated.ok
           THEN /\ lastCall' = Called("addProtectedAsset", source, FALSE)
                /\ UNCHANGED << assetStore, assetsCorrupt, faults >>
           ELSE \E written \in WriteOutcomes :
                  /\ lastCall' = [Called("addProtectedAsset", source, written)
                                    EXCEPT !.ret =
                                      IF written
                                      THEN << [asset |-> asset,
                                               hashes |-> generated.hashes] >>
                                      ELSE << >>]
                  /\ assetStore' = (IF written
                                    THEN SaveProtectedAssetTo(GetProtectedAssets, asset)
                                    ELSE assetStore)
                  /\ assetsCorrupt' = (IF written THEN FALSE ELSE assetsCorrupt)
                  /\ faults' = (IF written THEN faults ELSE faults + 1)
    /\ now' = now + 1
    /\ UNCHANGED << alertStore, history, targetsCfg, pc, sessVars, matches, vault >>

\* lines 328-331: the list deleteProtectedAsset writes back
DeleteProtectedAssetFrom(list, assetId) ==
    SelectSeq(list, LAMBDA a : a.id # assetId)

\* lines 328-331
DeleteProtectedAsset(assetId) ==
    /\ lastCall.n < MaxOps
    /\ NoScanRunning
    /\ \E written \in WriteOutcomes :
         /\ lastCall' = Called("deleteProtectedAsset", assetId, written)
         /\ assetStore' = (IF written
                           THEN DeleteProtectedAssetFrom(GetProtectedAssets, assetId)
                           ELSE assetStore)
         /\ assetsCorrupt' = (IF written THEN FALSE ELSE assetsCorrupt)
         /\ faults' = (IF written THEN faults ELSE faults + 1)
    /\ UNCHANGED << alertStore, history, targetsCfg, now, pc, sessVars, matches,
                    vault >>

\* an asset an earlier registration left in the store
PriorAsset(i) ==
    [id |-> 0 - i, matchCount |-> 0, lastScanned |-> 0, monitoringEnabled |-> TRUE]

InitAssets ==
    /\ assetsCorrupt = FALSE
    /\ assetStore \in { << >>, << PriorAsset(1) >> }
    /\ targetsCfg = << >>
    /\ alertStore \in { << >>, << PriorAlert(1) >> }
    /\ history = << >>
    /\ vault = << >>
    /\ SessionInit

\* ids a caller hands to deleteProtectedAsset: of a prior asset, of the
\* first registered asset, and of no asset
CallerDeleteIds == { 0 - 1, 1, 0 }

\* the registration flow of MatchReview.tsx: uploads and removals
NextAssets ==
    \/ \E source \in Sources : AddProtectedAsset(source)
    \/ \E assetId \in CallerDeleteIds : DeleteProtectedAsset(assetId)

SpecAssets == InitAssets /\ [][NextAssets]_vars

\* ------------------------------------------------------------ removal during a scan
\* The remove button of MatchReview.tsx (line 649) stays enabled while a scan
\* runs: deleteProtectedAsset can be called at the await of line 242.
InitDelete ==
    /\ StoreInit(MaxConcPairs)
    /\ alertStore = << >>
    /\ history = << >>
    /\ vault = << >>
    /\ SessionInit

\* ids of the assets of AssetLists
StoredAssetIds == 1..MaxAssets

NextDelete ==
    \/ StartScan(1)
    \/ Scan(1)
    \/ \E assetId \in StoredAssetIds : DeleteProtectedAsset(assetId)

SpecDelete == InitDelete /\ [][NextDelete]_vars

\* ------------------------------------------------------------ concurrent calls
\* Two calls of runMonitoringScan whose steps interleave at the await of line
\* 242 (two callers, or two tabs over the same localStorage): nothing in the
\* service serializes them.
InitConc ==
    /\ StoreInit(MaxConcPairs)
    /\ alertStore = << >>
    /\ history = << >>
    /\ vault = << >>
    /\ SessionInit

NextConc ==
    \E s \in Sessions :
        \/ StartScanBody(s)
        \/ Scan(s)

SpecConc == InitConc /\ [][NextConc]_vars

\* ------------------------------------------------------------ observations
CountEnabledAssets(list) ==
    Cardinality({ i \in 1..Len(list) : list[i].monitoringEnabled })

CountEnabledTargets(list) ==
    Cardinality({ i \in 1..Len(list) : list[i].enabled })

\* alerts of type match_found a call handed to saveAlert
NumMatchAlerts(s) ==
    Cardinality({ i \in 1..Len(emitted[s]) : emitted[s][i].type = "match_found" })

\* the step is the one in which the crawl of call s settles
CrawlSettles(s) == pc[s] = "crawl" /\ pc'[s] # "crawl"

Terminal == {"completed", "error"}

\* ------------------------------------------------------------ C1
\* C1: when a scan session is complete, session.matchesFound equals the number
\* of match_found alerts the session handed to saveAlert, whatever the crawler
\* did and whichever step of a pair threw.
C1_MatchesFoundEqualsMatchAlerts ==
    \A s \in Sessions :
        session[s].status = "completed" =>
            session[s].matchesFound = NumMatchAlerts(s)

\* ------------------------------------------------------------ C2
\* C2: on every pair for which the crawler reports found = true the session
\* adds 1 to matchesFound and to the asset's matchCount, sets lastScanned,
\* persists the asset and emits exactly one critical match_found alert with the
\* reported similarity (in whole percent) and the reported url.
C2_ReportedMatchIsRecorded ==
    [][\A s \in Sessions :
         (CrawlSettles(s) /\ result'[s].kind = "ok" /\ result'[s].found) =>
             LET before == assets[s][ai[s]]
                 after == assets'[s][ai[s]]
             IN  /\ session'[s].matchesFound = session[s].matchesFound + 1
                 /\ after.matchCount = before.matchCount + 1
                 /\ after.lastScanned = now'
                 /\ \E i \in 1..Len(assetStore') : assetStore'[i] = after
                 /\ Len(emitted'[s]) = Len(emitted[s]) + 1
                 /\ SubSeq(emitted'[s], 1, Len(emitted[s])) = emitted[s]
                 /\ LET alert == emitted'[s][Len(emitted'[s])]
                    IN  /\ alert.type = "match_found"
                        /\ alert.severity = "critical"
                        /\ alert.matchUrl = result'[s].url
                        /\ 10 * alert.similarity - 5 <= result'[s].similarity
                        /\ result'[s].similarity < 10 * alert.similarity + 5
    ]_vars

\* ------------------------------------------------------------ C3
\* C3: a crawl that throws does not abort the session: the step leaves the
\* status scanning and goes on to the next pair, and a session in which a crawl
\* threw returns with status completed after crawling every enabled pair.
C3_CrawlErrorDoesNotAbort ==
    /\ [][\A s \in Sessions :
            (CrawlSettles(s) /\ result'[s].kind = "throw") =>
                /\ session'[s].status = "scanning"
                /\ pc'[s] = "loop"
                /\ ai'[s] = ai[s]
                /\ ti'[s] = ti[s] + 1
       ]_vars
    /\ [](\A s \in Sessions :
            (failedPairs[s] # {} /\ pc[s] = "done") =>
                /\ session[s].status = "completed"
                /\ Len(crawlLog[s]) =
                       CountEnabledAssets(readAtStart[s]) * CountEnabledTargets(targetsCfg)
                /\ { crawlLog[s][k] : k \in 1..Len(crawlLog[s]) } =
                       { << readAtStart[s][i].id, targetsCfg[j].id >> :
                           i \in { i \in 1..Len(readAtStart[s]) :
                                     readAtStart[s][i].monitoringEnabled },
                           j \in { j \in 1..Len(targetsCfg) : targetsCfg[j].enabled } })

\* a session whose first crawl threw has crawled six pairs and returned
C3_Witness ==
    /\ pc[1] = "done"
    /\ 1 \in failedPairs[1]
    /\ Len(crawlLog[1]) = 6
    /\ session[1].status = "completed"

\* ------------------------------------------------------------ C4
\* C4: a scan started while the protected-asset store is unreadable ends in
\* status error, not completed.
C4_UnreadableStoreEndsInError ==
    \A s \in Sessions :
        (unreadableAtStart[s] /\ pc[s] = "done") => session[s].status = "error"

\* ------------------------------------------------------------ C5
\* C5: the status of a session only moves idle -> scanning -> completed or
\* error; it never moves back and never leaves completed or error.
C5_StatusOnlyAdvances ==
    [][\A s \in Sessions :
         \/ session'[s].status = session[s].status
         \/ << session[s].status, session'[s].status >> \in
                { << "idle", "scanning" >>, << "scanning", "completed" >>,
                  << "scanning", "error" >> }
    ]_vars

\* a completed session that went through the loop and took its later step
\* (the history log)
C5_Witness ==
    /\ pc[1] = "done"
    /\ session[1].status = "completed"
    /\ session[1].targetsScanned > 0
    /\ Len(history) = 1

\* ------------------------------------------------------------ C6
\* C6: every started session reaches a terminal status: a call of
\* runMonitoringScan that has ended (returned or thrown) has left its session
\* completed or error.
C6_EndedSessionIsTerminal ==
    \A s \in Sessions :
        pc[s] \in {"done", "rejected"} => session[s].status \in Terminal

\* ------------------------------------------------------------ C7
\* C7: the progress values handed to the progress callback are within 0..100
\* and never decrease, and the last one is 100 once the session has completed
\* and made its last report; also with no enabled target.
C7_ProgressNonDecreasing ==
    \A s \in Sessions :
        LET log == progressLog[s]
        IN  /\ \A i \in 1..Len(log) : log[i].progress \in 0..100
            /\ \A i \in 1..(Len(log) - 1) : log[i].progress <= log[i + 1].progress
            /\ pc[s] \in {"history", "done"} =>
                   /\ session[s].status = "completed"
                   /\ log[Len(log)].progress = 100

\* a returned session with an enabled asset and no enabled target
C7_Witness ==
    /\ pc[1] = "done"
    /\ Len(assets[1]) >= 1
    /\ Len(targets[1]) = 0
    /\ Len(progressLog[1]) = 2

\* ------------------------------------------------------------ C8
\* C8: totalTargets is (enabled assets) x (enabled targets) as read when the
\* scan started, throughout the session; targetsScanned never exceeds it and
\* equals it when the session is completed.
C8_TotalTargets ==
    \A s \in Sessions :
        pc[s] # "idle" =>
            /\ session[s].totalTargets =
                   CountEnabledAssets(readAtStart[s]) * CountEnabledTargets(targetsCfg)
            /\ session[s].targetsScanned <= session[s].totalTargets
            /\ session[s].status = "completed" =>
                   session[s].targetsScanned = session[s].totalTargets

\* a returned session over a store with a disabled asset and a target list with
\* a disabled target
C8_Witness ==
    /\ pc[1] = "done"
    /\ session[1].totalTargets = 3
    /\ session[1].targetsScanned = 3
    /\ CountEnabledAssets(readAtStart[1]) < Len(readAtStart[1])
    /\ CountEnabledTargets(targetsCfg) < Len(targetsCfg)

\* ------------------------------------------------------------ C9
\* the progress values reported at the head of each pair, in order
PairProgress(s) ==
    LET pairs == SelectSeq(progressLog[s], LAMBDA e : e.at = "pair")
    IN  [k \in 1..Len(pairs) |-> pairs[k].progress]

\* p is k/n*100 rounded to the nearest integer, halves up
IsRoundedPercent(p, k, n) ==
    /\ (2 * p - 1) * n <= 200 * k
    /\ 200 * k < (2 * p + 1) * n

\* C9: the progress reported for the k-th pair is round(k / totalTargets * 100);
\* with 2 enabled assets and 3 enabled targets totalTargets is 6 and the
\* per-pair values are 17, 33, 50, 67, 83, 100.
C9_PairProgressRounded ==
    \A s \in Sessions :
        /\ \A k \in 1..Len(PairProgress(s)) :
               IsRoundedPercent(PairProgress(s)[k], k, session[s].totalTargets)
        /\ ( /\ pc[s] = "done"
             /\ CountEnabledAssets(readAtStart[s]) = 2
             /\ CountEnabledTargets(targetsCfg) = 3 ) =>
               /\ session[s].totalTargets = 6
               /\ PairProgress(s) = << 17, 33, 50, 67, 83, 100 >>

\* the scenario of the claim, with a disabled target in the list
C9_Witness ==
    /\ pc[1] = "done"
    /\ CountEnabledAssets(readAtStart[1]) = 2
    /\ CountEnabledTargets(targetsCfg) = 3
    /\ Len(targetsCfg) = 4
    /\ Len(PairProgress(1)) = 6

\* ------------------------------------------------------------ C10
\* C10: a scan started with no enabled asset never calls the crawler and never
\* enters the loop; once its one step is taken the status is completed, progress
\* is 100, matchesFound is 0 and exactly one alert, of severity info, has been
\* handed to saveAlert; when the call has returned that alert heads the store.
C10_NoEnabledAssets ==
    \A s \in Sessions :
        (pc[s] # "idle" /\ CountEnabledAssets(readAtStart[s]) = 0) =>
            /\ crawlLog[s] = << >>
            /\ pc[s] \in {"noassets", "done", "rejected"}
            /\ pc[s] \in {"done", "rejected"} =>
                   /\ session[s].status = "completed"
                   /\ session[s].progress = 100
                   /\ session[s].matchesFound = 0
                   /\ Len(emitted[s]) = 1
                   /\ emitted[s][1].severity = "info"
            /\ pc[s] = "done" =>
                   /\ Len(alertStore) >= 1
                   /\ alertStore[1] = emitted[s][1]

\* a returned scan over a store that holds assets, all with monitoring disabled
C10_Witness ==
    /\ pc[1] = "done"
    /\ Len(readAtStart[1]) >= 1
    /\ CountEnabledAssets(readAtStart[1]) = 0
    /\ Len(emitted[1]) = 1

\* ------------------------------------------------------------ C11
\* what the progress callback saw at the head of each pair
PairCallbacks(s) == SelectSeq(progressLog[s], LAMBDA e : e.at = "pair")

\* the k-th pair callback saw the session with the pair's target as
\* currentTarget and k pairs counted, before the k-th call of the crawler
CallbackPrecedesCrawl(s) ==
    /\ Len(PairCallbacks(s)) = Len(crawlLog[s])
    /\ \A k \in 1..Len(crawlLog[s]) :
         LET e == PairCallbacks(s)[k]
         IN  /\ e.currentTarget = crawlLog[s][k][2]
             /\ e.targetsScanned = k
             /\ IsRoundedPercent(e.progress, k, session[s].totalTargets)
             /\ e.crawls = k - 1

\* the crawler is called only while no crawl of the session is in flight,
\* one call at a time
OneCrawlInFlight(s) ==
    crawlLog'[s] # crawlLog[s] =>
        /\ pc[s] # "crawl"
        /\ pc'[s] = "crawl"
        /\ Len(crawlLog'[s]) = Len(crawlLog[s]) + 1
        /\ SubSeq(crawlLog'[s], 1, Len(crawlLog[s])) = crawlLog[s]

\* C11: for each (asset, target) pair currentTarget is set, targetsScanned is
\* incremented and progress recomputed, then the progress callback is invoked,
\* and only then the crawler is called for the pair; the crawler is not called
\* for the next pair before the current call has returned or thrown, so at
\* most one crawl is in flight per session.
C11_PairStepOrder ==
    /\ [](\A s \in Sessions : CallbackPrecedesCrawl(s))
    /\ [][\A s \in Sessions :
            /\ OneCrawlInFlight(s)
            /\ (pc[s] = "crawl" /\ pc'[s] = "crawl") => UNCHANGED crawlLog]_vars

\* a second pair is being crawled after the first crawl has settled
C11_Witness ==
    /\ pc[1] = "crawl"
    /\ Len(crawlLog[1]) = 2
    /\ crawlLog[1][1] # crawlLog[1][2]
    /\ PairCallbacks(1)[2].crawls = 1

\* ------------------------------------------------------------ C12
\* (enabled assets) x (enabled targets) in store order, assets outer
ExpectedCrawls(as, ts) ==
    LET ea == SelectSeq(as, LAMBDA a : a.monitoringEnabled)
        et == SelectSeq(ts, LAMBDA t : t.enabled)
    IN  [k \in 1..(Len(ea) * Len(et)) |->
            << ea[((k - 1) \div Len(et)) + 1].id, et[((k - 1) % Len(et)) + 1].id >>]

IsPrefix(p, q) == Len(p) <= Len(q) /\ SubSeq(q, 1, Len(p)) = p

\* C12: the crawler calls of a session are the enumeration of (enabled
\* assets) x (enabled targets) in store order, assets in the outer loop and
\* targets in the inner one: every enabled pair is crawled exactly once, and
\* no asset with monitoringEnabled = false and no target with enabled = false
\* is ever crawled.
C12_CrawlsAreEnabledCrossProduct ==
    \A s \in Sessions :
        LET expected == ExpectedCrawls(readAtStart[s], targetsCfg)
        IN  /\ IsPrefix(crawlLog[s], expected)
            /\ session[s].status = "completed" => crawlLog[s] = expected
            /\ \A k \in 1..Len(crawlLog[s]) :
                 /\ \A j \in 1..Len(crawlLog[s]) :
                      crawlLog[s][j] = crawlLog[s][k] => j = k
                 /\ \E i \in 1..Len(readAtStart[s]) :
                      /\ readAtStart[s][i].id = crawlLog[s][k][1]
                      /\ readAtStart[s][i].monitoringEnabled
                 /\ \E i \in 1..Len(targetsCfg) :
                      /\ targetsCfg[i].id = crawlLog[s][k][2]
                      /\ targetsCfg[i].enabled

\* a finished scan of two enabled assets over two enabled targets, with a
\* disabled target between or around them
C12_Witness ==
    /\ pc[1] = "done"
    /\ CountEnabledAssets(readAtStart[1]) = 2
    /\ CountEnabledTargets(targetsCfg) = 2
    /\ Len(targetsCfg) = 3
    /\ Len(crawlLog[1]) = 4
    /\ crawlLog[1][1][1] = crawlLog[1][2][1]
    /\ crawlLog[1][3][1] # crawlLog[1][1][1]

\* ------------------------------------------------------------ C14
\* positions in the alerts of call s that hold a scan_complete alert
SummaryPositions(s) ==
    { i \in 1..Len(emitted[s]) : emitted[s][i].type = "scan_complete" }

\* C14: a scan that iterates its pairs emits exactly one summary alert of type
\* scan_complete, after all match_found alerts of the session, with severity
\* warning if matchesFound > 0 and info otherwise; at that point status is
\* completed, progress is 100 and currentTarget is cleared.
C14_OneSummaryAfterMatches ==
    \A s \in Sessions :
        Len(assets[s]) > 0 =>
            /\ Cardinality(SummaryPositions(s)) <= 1
            /\ SummaryPositions(s) \subseteq { Len(emitted[s]) }
            /\ SummaryPositions(s) # {} <=> session[s].status = "completed"
            /\ session[s].status = "completed" =>
                 /\ crawlLog[s] = ExpectedCrawls(readAtStart[s], targetsCfg)
                 /\ \A i \in 1..(Len(emitted[s]) - 1) :
                      emitted[s][i].type = "match_found"
                 /\ emitted[s][Len(emitted[s])].severity =
                      (IF session[s].matchesFound > 0 THEN "warning" ELSE "info")
                 /\ session[s].progress = 100
                 /\ session[s].currentTarget = 0

\* a finished scan that found a match: its last alert is the warning summary
C14_Witness ==
    /\ pc[1] = "done"
    /\ session[1].matchesFound > 0
    /\ Len(emitted[1]) >= 2
    /\ emitted[1][1].type = "match_found"
    /\ emitted[1][Len(emitted[1])].type = "scan_complete"
    /\ emitted[1][Len(emitted[1])].severity = "warning"

\* ------------------------------------------------------------ C18
\* the position at which call s handed the alert to saveAlert, 0 if it did not
EmittedAt(s, alert) ==
    IF \E p \in 1..Len(emitted[s]) : emitted[s][p] = alert
    THEN CHOOSE p \in 1..Len(emitted[s]) : emitted[s][p] = alert
    ELSE 0

\* C18: alerts are kept most recent first: of two alerts saved during a
\* session and both still stored, the one saved later is nearer the head, so
\* the match_found alerts of a session appear in reverse order of discovery
\* and the summary alert of the session is ahead of all of them.
C18_MostRecentFirst ==
    \A s \in Sessions :
        /\ \A p, q \in 1..Len(emitted[s]) : emitted[s][p] = emitted[s][q] => p = q
        /\ \A i, j \in 1..Len(alertStore) :
             (i < j /\ EmittedAt(s, alertStore[i]) > 0
                    /\ EmittedAt(s, alertStore[j]) > 0)
                 => EmittedAt(s, alertStore[i]) > EmittedAt(s, alertStore[j])
        /\ \A i, j \in 1..Len(alertStore) :
             (EmittedAt(s, alertStore[i]) > 0 /\ EmittedAt(s, alertStore[j]) > 0
                /\ alertStore[i].type = "scan_complete"
                /\ alertStore[j].type = "match_found") => i < j

\* two matches and the summary are stored: summary, second match, first match
C18_Witness ==
    /\ pc[1] = "done"
    /\ Len(alertStore) = 3
    /\ Len(emitted[1]) = 3
    /\ alertStore[1] = emitted[1][3]
    /\ alertStore[1].type = "scan_complete"
    /\ alertStore[2] = emitted[1][2]
    /\ alertStore[3] = emitted[1][1]
    /\ alertStore[3].type = "match_found"

\* ------------------------------------------------------------ C13
\* every asset of AssetLists starts with matchCount 0
MatchCountBefore(id) == 0

\* match_found alerts for the asset that the two calls handed to saveAlert
MatchAlertsFor(id) ==
    Cardinality({ << s, i >> \in Sessions \X (1..MaxConcPairs) :
                    /\ i <= Len(emitted[s])
                    /\ emitted[s][i].type = "match_found"
                    /\ emitted[s][i].assetId = id })

\* C13: when two scan sessions run concurrently over the same protected
\* asset no update is lost: after both have completed, the stored matchCount
\* of the asset is its matchCount before the sessions plus the number of
\* match_found alerts the two sessions emitted for it.
C13_NoLostUpdate ==
    (pc[1] = "done" /\ pc[2] = "done" /\ faults = 0) =>
        \A i \in 1..Len(assetStore) :
            assetStore[i].matchCount =
                MatchCountBefore(assetStore[i].id) + MatchAlertsFor(assetStore[i].id)

\* ------------------------------------------------------------ C15
\* the step is the one in which call s returns its session
Returns(s) == pc[s] # "done" /\ pc'[s] = "done"

\* the log after the step: the returned session, then the previous log
\* without what no longer fits
RecordedAtHead(s) ==
    /\ Len(history') = (IF Len(history) < HistoryCapacity
                        THEN Len(history) + 1 ELSE HistoryCapacity)
    /\ history'[1] = session'[s]
    /\ \A i \in 2..Len(history') : history'[i] = history[i - 1]

\* C15 as stated: whenever runMonitoringScan returns a session with status
\* completed, that session is the head entry of the scan-history log.
C15_CompletedIsHistoryHead ==
    [][\A s \in Sessions :
         (Returns(s) /\ session'[s].status = "completed") =>
             (Len(history') >= 1 /\ history'[1] = session'[s])]_vars

\* C15 amended: whenever runMonitoringScan returns a session that iterated
\* its pairs (there was at least one enabled asset), that session has been
\* recorded as the head entry of the scan-history log; a scan without enabled
\* assets returns completed and leaves the log as it was; the log never holds
\* more than 50 sessions, the oldest being dropped first.
C15_IteratedScanIsHistoryHead ==
    /\ [](Len(history) <= HistoryCapacity)
    /\ [][\A s \in Sessions :
            /\ (Returns(s) /\ Len(assets[s]) > 0) =>
                   (session'[s].status = "completed" /\ RecordedAtHead(s))
            /\ (Returns(s) /\ Len(assets[s]) = 0) => UNCHANGED history]_vars
    /\ [][history' # history =>
            \E s \in Sessions : Returns(s) /\ Len(assets[s]) > 0]_vars

\* the second of two scans has returned into a log that was full before the
\* first: both are at the head and the two oldest sessions are gone
C15_Witness ==
    /\ pc[1] = "done"
    /\ pc[2] = "done"
    /\ Len(assets[1]) > 0
    /\ Len(assets[2]) > 0
    /\ Len(history) = HistoryCapacity
    /\ history[1] = session[2]
    /\ history[2] = session[1]
    /\ history[HistoryCapacity] = PriorSession(HistoryCapacity - 2)

\* ------------------------------------------------------------ C16
\* the step is a call of the store function op that returned
CallReturned(op) == lastCall' # lastCall /\ lastCall'.op = op /\ lastCall'.ok

\* C16: after any sequence of saveAlert, markAlertRead and clearAllAlerts
\* calls the alert store holds at most 100 alerts; saveAlert places the new
\* alert at the head, and a save into a store of 100 alerts leaves exactly 100
\* with the single oldest (tail) alert evicted and the others in their order.
C16_AlertStoreBounded ==
    /\ [](Len(alertStore) <= AlertCapacity)
    /\ [][CallReturned("saveAlert") =>
            /\ alertStore'[1] = lastCall'.arg
            /\ Len(alertStore') = (IF Len(alertStore) < AlertCapacity
                                   THEN Len(alertStore) + 1 ELSE AlertCapacity)
            /\ \A i \in 2..Len(alertStore') : alertStore'[i] = alertStore[i - 1]]_vars

\* two saves into a full store: both are at the head, 100 alerts are left and
\* the two oldest are gone
C16_Witness ==
    /\ lastCall.op = "saveAlert"
    /\ lastCall.ok
    /\ lastCall.n = 2
    /\ Len(alertStore) = AlertCapacity
    /\ alertStore[1] = lastCall.arg
    /\ alertStore[2] \in CallerAlerts
    /\ alertStore[3] = PriorAlert(1)
    /\ alertStore[AlertCapacity] = PriorAlert(AlertCapacity - 2)

\* ------------------------------------------------------------ C17
SameButRead(a, b) == [a EXCEPT !.read = FALSE] = [b EXCEPT !.read = FALSE]

\* the first alert of the list with the id, 0 if there is none
FirstWithId(list, alertId) ==
    IF \E i \in 1..Len(list) : list[i].id = alertId
    THEN CHOOSE i \in 1..Len(list) :
             /\ list[i].id = alertId
             /\ \A j \in 1..(i - 1) : list[j].id # alertId
    ELSE 0

\* a step of saveAlert keeps every stored alert as it is, one place further
\* from the head, but the oldest of a full store
SaveKeepsAlerts ==
    \A i \in 1..Len(alertStore) :
        \/ i = AlertCapacity
        \/ (i + 1 <= Len(alertStore') /\ alertStore'[i + 1] = alertStore[i])

\* a step of markAlertRead(alertId) changes nothing but the read flag of the
\* alert with the id, which it sets
MarkOnlySetsRead(alertId) ==
    LET k == FirstWithId(alertStore, alertId)
    IN  /\ Len(alertStore') = Len(alertStore)
        /\ \A i \in 1..Len(alertStore) : i # k => alertStore'[i] = alertStore[i]
        /\ k # 0 => /\ SameButRead(alertStore'[k], alertStore[k])
                    /\ alertStore'[k].read

\* C17: a saved alert stays in the store, every field other than read
\* unchanged, until clearAllAlerts is called or it is evicted as the oldest
\* entry of a full store; markAlertRead(id) only sets read = true on the
\* alert with that id and leaves the store unchanged when no alert has it.
C17_AlertsPersist ==
    [][/\ CallReturned("saveAlert") => SaveKeepsAlerts
       /\ CallReturned("markAlertRead") => MarkOnlySetsRead(lastCall'.arg)
       /\ ~(\E op \in {"saveAlert", "markAlertRead", "clearAllAlerts"} :
               CallReturned(op)) => UNCHANGED alertStore]_vars

\* an alert was saved into a store of 99, then marked read: it alone is read
C17_Witness ==
    /\ lastCall.op = "markAlertRead"
    /\ lastCall.ok
    /\ Len(alertStore) = AlertCapacity
    /\ lastCall.arg = << 1, 0 >>
    /\ alertStore[1].id = lastCall.arg
    /\ alertStore[1] \notin CallerAlerts
    /\ \E a \in CallerAlerts : SameButRead(alertStore[1], a)
    /\ alertStore[1].read
    /\ \A i \in 2..Len(alertStore) : ~alertStore[i].read
    /\ alertStore[2] = PriorAlert(1)

\* ------------------------------------------------------------ C19
\* C19: storing into the fingerprint vault is an idempotent upsert keyed by
\* assetId: after any sequence of store calls the vault holds at most one
\* record per assetId, a second store of an assetId replacing its record.
C19_VaultUpsert ==
    \A i, j \in 1..Len(vault) : vault[i].id = vault[j].id => i = j

\* ------------------------------------------------------------ C20
\* how many times x occurs in the list
Occurrences(list, x) == Cardinality({ i \in 1..Len(list) : list[i] = x })

\* the entry has a hash of the algorithm within the threshold of the target
Qualifies(entry, targetHash, algorithm, threshold) ==
    /\ Len(entry.hashes[algorithm]) > 0
    /\ CalculateHammingDistance(targetHash, entry.hashes[algorithm]) <= threshold

\* what the search has to report for an entry that qualifies
ReportOf(entry, targetHash, algorithm) ==
    [assetId |-> entry.id,
     similarity |-> MathRound(
         (HashBits - CalculateHammingDistance(targetHash, entry.hashes[algorithm]))
             * 100, HashBits),
     storedAt |-> entry.storedAt]

\* C20: for every vault content, target hash, algorithm and threshold,
\* searchVaultForMatches returns exactly the vault entries whose stored hash
\* of that algorithm is at Hamming distance <= threshold from the target,
\* each with similarity round((1 - distance/64) * 100), ordered by
\* non-increasing similarity; on an empty vault, or when no entry qualifies,
\* it returns the empty list and never an error.
C20_SearchReturnsMatchesSorted ==
    lastCall.op = "searchVaultForMatches" =>
        LET a == lastCall.arg
            ret == lastCall.ret
            hits == { i \in 1..Len(vault) :
                        Qualifies(vault[i], a.targetHash, a.algorithm, a.threshold) }
        IN  /\ lastCall.ok
            /\ Len(ret) = Cardinality(hits)
            /\ \A i \in hits :
                 LET r == ReportOf(vault[i], a.targetHash, a.algorithm)
                 IN  Occurrences(ret, r) =
                        Cardinality({ j \in hits :
                            ReportOf(vault[j], a.targetHash, a.algorithm) = r })
            /\ \A i \in 1..(Len(ret) - 1) : ret[i].similarity >= ret[i + 1].similarity
            /\ hits = {} => ret = << >>

\* a search over two entries: the one at distance 5 = threshold and the one
\* at distance 0 are returned, the nearer first though it was stored later
C20_Witness ==
    /\ lastCall.op = "searchVaultForMatches"
    /\ lastCall.arg.threshold = 5
    /\ Len(vault) = 2
    /\ Len(lastCall.ret) = 2
    /\ lastCall.ret[1].similarity = 100
    /\ lastCall.ret[2].similarity = 92
    /\ lastCall.ret[1].storedAt > lastCall.ret[2].storedAt

\* ------------------------------------------------------------ C21
\* the step is a call of storeHashInVault whose setItem threw
StoreWriteFailed ==
    /\ lastCall' # lastCall
    /\ lastCall'.op = "storeHashInVault"
    /\ faults' = faults + 1

\* C21: if the backend write fails while a record is stored into the
\* fingerprint vault, the store operation reports the failure to its caller
\* as an error instead of returning normally, and the vault is unchanged.
C21_StoreFailureReported ==
    [][StoreWriteFailed => (~lastCall'.ok /\ vault' = vault)]_vars

\* ------------------------------------------------------------ C22
\* the step is a call of addProtectedAsset with a source that does not decode
AddsUndecodable ==
    /\ lastCall' # lastCall
    /\ lastCall'.op = "addProtectedAsset"
    /\ ~lastCall'.arg.decodable

\* C22: if the image source cannot be decoded, hash generation fails with an
\* error and produces no hash (no placeholder is substituted), and
\* addProtectedAsset propagates the error to its caller without adding or
\* changing any protected asset and without emitting any alert.
C22_UndecodableSourceIsRejected ==
    [][AddsUndecodable =>
          /\ ~GenerateAllHashes(lastCall'.arg).ok
          /\ GenerateAllHashes(lastCall'.arg).hashes = << >>
          /\ ~lastCall'.ok
          /\ lastCall'.ret = << >>
          /\ UNCHANGED << assetStore, assetsCorrupt, alertStore >>]_vars

\* an upload that does not decode, after one that did: the call has thrown
\* and the store still holds the prior asset and the one registered before
C22_Witness ==
    /\ lastCall.op = "addProtectedAsset"
    /\ ~lastCall.arg.decodable
    /\ ~lastCall.ok
    /\ lastCall.n = 2
    /\ Len(assetStore) = 2
    /\ assetStore[1] = PriorAsset(1)
    /\ assetStore[2].id = 1

\* ------------------------------------------------------------ C28
\* the asset is in the protected-asset store
IsStored(assetId) == \E i \in 1..Len(assetStore) : assetStore[i].id = assetId

\* C28: a protected asset removed by deleteProtectedAsset while a scan
\* session is in flight stays removed: no later step of the session puts it
\* back into the protected-asset store.
C28_DeletedAssetStaysDeleted ==
    [][\A assetId \in StoredAssetIds :
          (~IsStored(assetId) /\ IsStored(assetId)') =>
              ~(\E s \in Sessions : InFlight(s))]_vars

\* ------------------------------------------------------------ C30
\* C30: when a scan with at least one enabled asset completes (no concurrent
\* writer), every asset that had monitoringEnabled = true at scan start has
\* lastScanned set and persisted, whether or not a match was found for it and
\* even when there are no enabled targets, while every asset with
\* monitoringEnabled = false is left unchanged in the store.
C30_EnabledAssetsStamped ==
    \A s \in Sessions :
        (session[s].status = "completed" /\ Len(assets[s]) > 0) =>
            /\ Len(assetStore) = Len(readAtStart[s])
            /\ \A i \in 1..Len(readAtStart[s]) :
                 IF readAtStart[s][i].monitoringEnabled
                 THEN /\ assetStore[i].id = readAtStart[s][i].id
                      /\ assetStore[i].lastScanned > 0
                      /\ assetStore[i].lastScanned <= now
                      /\ assetStore[i].monitoringEnabled
                      /\ \E k \in 1..Len(assets[s]) : assets[s][k] = assetStore[i]
                 ELSE assetStore[i] = readAtStart[s][i]

\* a finished scan over no enabled target: the enabled asset is stamped
\* without a crawl, the disabled one is as it was
C30_Witness ==
    /\ pc[1] = "done"
    /\ Len(readAtStart[1]) = 2
    /\ CountEnabledAssets(readAtStart[1]) = 1
    /\ Len(targetsCfg) >= 1
    /\ CountEnabledTargets(targetsCfg) = 0
    /\ crawlLog[1] = << >>
    /\ \E i \in 1..2 : /\ readAtStart[1][i].monitoringEnabled
                       /\ assetStore[i].lastScanned > 0
                       /\ assetStore[i].matchCount = 0
    /\ \E i \in 1..2 : /\ ~readAtStart[1][i].monitoringEnabled
                       /\ assetStore[i] = readAtStart[1][i]

\* ------------------------------------------------------------ C23
\* bits in which two hexadecimal digits differ
DigitXorPopcount(d1, d2) ==
    Cardinality({ k \in {1, 2, 4, 8} : (d1 \div k) % 2 # (d2 \div k) % 2 })

\* popcount of the XOR of two 64-bit hashes, digit by digit
RECURSIVE XorPopcountFrom(_, _, _)
XorPopcountFrom(h1, h2, i) ==
    IF i > HashDigits THEN 0
    ELSE DigitXorPopcount(h1[i], h2[i]) + XorPopcountFrom(h1, h2, i + 1)

XorPopcount(h1, h2) == XorPopcountFrom(h1, h2, 1)

\* the last call compared two hashes of 16 digits
Compared64 ==
    /\ lastCall.op = "compareHashes"
    /\ Len(lastCall.arg.hash1) = HashDigits
    /\ Len(lastCall.arg.hash2) = HashDigits

\* C23: for all 64-bit hashes h1, h2, calculateHammingDistance(h1, h2) is the
\* number of bit positions in which they differ (popcount of their XOR), lies
\* in [0, 64], is symmetric, and is 0 when h1 = h2.
C23_HammingDistanceIsXorPopcount ==
    Compared64 =>
        LET h1 == lastCall.arg.hash1
            h2 == lastCall.arg.hash2
            d == lastCall.ret[1].hammingDistance
        IN  /\ d = CalculateHammingDistance(h1, h2)
            /\ d = XorPopcount(h1, h2)
            /\ d \in 0..HashBits
            /\ CalculateHammingDistance(h2, h1) = d
            /\ h1 = h2 => d = 0
            /\ CalculateHammingDistance(h1, h1) = 0

\* 'A5A5...' against '5A5A...': all 64 bits differ, though both strings have
\* leading zero bits after toString(2) only on one side
C23_Witness ==
    /\ Compared64
    /\ lastCall.arg.hash1 = Hash5A
    /\ lastCall.arg.hash2 = HashA5
    /\ lastCall.ret[1].hammingDistance = HashBits

\* ------------------------------------------------------------ C24
\* C24: for all 64-bit hashes the similarity returned by compareHashes is
\* round((1 - distance/64) * 100), lies in [0, 100], does not increase when
\* the distance increases, is 100 if and only if the distance is 0 and is 0
\* if and only if the distance is 64.
C24_SimilarityFromDistance ==
    /\ [](Compared64 =>
            LET d == XorPopcount(lastCall.arg.hash1, lastCall.arg.hash2)
                sim == lastCall.ret[1].similarity
            IN  /\ IsRoundedPercent(sim, HashBits - d, HashBits)
                /\ sim \in 0..100
                /\ sim = 100 <=> d = 0
                /\ sim = 0 <=> d = HashBits)
    /\ [][(Compared64 /\ Compared64') =>
            (XorPopcount(lastCall'.arg.hash1, lastCall'.arg.hash2)
                >= XorPopcount(lastCall.arg.hash1, lastCall.arg.hash2)
             => lastCall'.ret[1].similarity <= lastCall.ret[1].similarity)]_vars

\* a second comparison, at distance 63: 1.5625 is rounded to 2
C24_Witness ==
    /\ Compared64
    /\ lastCall.n = 2
    /\ lastCall.arg.hash1 = HashZero
    /\ lastCall.arg.hash2 = LowOnes(63)
    /\ lastCall.ret[1].hammingDistance = 63
    /\ lastCall.ret[1].similarity = 2

\* ------------------------------------------------------------ C25
\* C25: for all 64-bit hashes and every threshold, compareHashes returns
\* isMatch = true exactly when the Hamming distance is <= threshold:
\* compare(h, h, 0) is a match, compare(h1, h2, 0) is not a match when h1
\* differs from h2, and the all-zero hash against the all-one hash is not a
\* match for any threshold below 64.
C25_MatchIffWithinThreshold ==
    Compared64 =>
        LET h1 == lastCall.arg.hash1
            h2 == lastCall.arg.hash2
            threshold == lastCall.arg.threshold
            isMatch == lastCall.ret[1].isMatch
        IN  /\ isMatch <=> XorPopcount(h1, h2) <= threshold
            /\ (h1 = h2 /\ threshold = 0) => isMatch
            /\ (h1 # h2 /\ threshold = 0) => ~isMatch
            /\ (h1 = HashZero /\ h2 = HashOnes /\ threshold < HashBits) => ~isMatch

\* all-zero against all-one at threshold 63: distance 64, no match
C25_Witness ==
    /\ Compared64
    /\ lastCall.arg.hash1 = HashZero
    /\ lastCall.arg.hash2 = HashOnes
    /\ lastCall.arg.threshold = 63
    /\ lastCall.ret[1].hammingDistance = 64
    /\ ~lastCall.ret[1].isMatch

\* ------------------------------------------------------------ C26
\* C26: comparing two hashes fails with an error, instead of returning a
\* distance and a similarity, whenever one of the hash strings is not exactly
\* 64 bits (16 hexadecimal digits) long.
C26_WrongLengthIsRejected ==
    (/\ lastCall.op = "compareHashes"
     /\ \/ Len(lastCall.arg.hash1) # HashDigits
        \/ Len(lastCall.arg.hash2) # HashDigits)
        => (~lastCall.ok /\ lastCall.ret = << >>)

\* ------------------------------------------------------------ C27
\* the sum of the samples, without rounding
RECURSIVE ExactSum(_, _)
ExactSum(gray, i) == IF i > Len(gray) THEN 0 ELSE gray[i] + ExactSum(gray, i + 1)

\* C27: for every 8x8 grayscale buffer, aHash bit i is 1 exactly when sample i
\* is strictly greater than the mean of the 64 samples, the bits are packed in
\* raster order into exactly 16 zero-padded hex digits, and a buffer whose 64
\* samples are all equal yields 0000000000000000.
C27_AverageHashOfBuffer ==
    lastCall.op = "generateAverageHash" =>
        LET gray == lastCall.arg
            hash == lastCall.ret[1]
        IN  /\ Len(hash) = HashDigits
            /\ \A i \in 1..HashBits :
                 HexToBits(hash)[i] = 1 <=> HashBits * gray[i] > ExactSum(gray, 1)
            /\ (\A i \in 1..HashBits : gray[i] = gray[1]) => hash = HashZero

\* ------------------------------------------------------------ C29
\* bits of the hash that are 1
Popcount(hash) ==
    Cardinality({ i \in 1..(4 * Len(hash)) : HexToBits(hash)[i] = 1 })

PerceptualHashed == lastCall.op = "generatePerceptualHash"

\* C29: for every input the pHash has at most 31 of its 64 bits set and its
\* last bit is 0: the bits are the 63 non-DC coefficients compared strictly
\* against their median (the element at sorted index 31), followed by one
\* padding 0; hence the Hamming distance between two pHashes is at most 62.
C29_PerceptualHashBits ==
    /\ [](PerceptualHashed =>
            LET dct == lastCall.arg
                hash == lastCall.ret[1]
                bits == HexToBits(hash)
            IN  /\ Len(hash) = HashDigits
                /\ Popcount(hash) <= 31
                /\ bits[HashBits] = 0
                /\ \E m \in { dct[j] : j \in 2..HashBits } :
                     /\ Cardinality({ j \in 2..HashBits : dct[j] < m }) <= 31
                     /\ Cardinality({ j \in 2..HashBits : dct[j] > m }) <= 31
                     /\ \A i \in 1..(HashBits - 1) : bits[i] = 1 <=> dct[i + 1] > m)
    /\ [][(PerceptualHashed /\ PerceptualHashed') =>
            /\ XorPopcount(lastCall.ret[1], lastCall'.ret[1]) <= 62
            /\ CalculateHammingDistance(lastCall.ret[1], lastCall'.ret[1]) <= 62]_vars

\* rising coefficients after falling ones: 31 bits each, none in common, so
\* the two hashes are at distance 62
C29_Witness ==
    /\ PerceptualHashed
    /\ lastCall.n = 2
    /\ lastCall.arg = RisingCoefficients
    /\ Popcount(lastCall.ret[1]) = 31
    /\ CalculateHammingDistance(lastCall.ret[1], PerceptualHashOf(FallingCoefficients)) = 62

====
